---------------------------- MODULE Spec2Model ----------------------------
(***************************************************************************)
(* Retrospective sentiment analysis (src/main.py): the text sanitizer, the *)
(* column analyzer and the filter / sort steps of main().                  *)
(*                                                                         *)
(* A text is a sequence of characters, each character a one-token string   *)
(* ("bullet" stands for U+2022).  A cell value is a record [kind, val]:    *)
(* kind "str" with val the characters, or a non-string kind ("float" for a *)
(* missing cell, NaN, and "int" for a number).  Compound scores are kept   *)
(* in hundredths (-100 .. 100).                                            *)
(***************************************************************************)
EXTENDS Integers, Sequences, FiniteSets, TLC

\* Longest enumerated input text of the sanitizer specification.
MaxLen == 3
\* Most rows of an uploaded table.
MaxRows == 2

VARIABLES
    text,              \* SpecSanitize: the value handed to sanitize_text
    once,              \* SpecSanitize: sanitize_text(text)
    twice,             \* SpecSanitize: sanitize_text(sanitize_text(text))
    spos,              \* SpecSanitize: "input", "once", "twice" ("idle" under Spec)
    pc,                \* main(): position in the script ("idle" under SpecSanitize)
    uploaded,          \* the uploaded file's table, as read by read_excel
    df,                \* main()'s df: the table analyze_retrodata augments in place
    colIdx,            \* analyze_retrodata: index of the next entry of sentiment_columns
    sentiment_filter,  \* the multiselect's value
    sort_by,           \* the selectbox's value
    filtered_df,       \* main()'s filtered_df
    aliased,           \* TRUE while filtered_df is the very object df (line 126)
    err                \* the exception main()'s except clause reported, and where it rose

vars == <<text, once, twice, spos, pc, uploaded, df, colIdx, sentiment_filter,
          sort_by, filtered_df, aliased, err>>

sanitizeVars == <<text, once, twice, spos>>
mainVars == <<pc, uploaded, df, colIdx, sentiment_filter, sort_by, filtered_df,
              aliased, err>>

---------------------------------------------------------------------------
(* Values and character classes                                            *)

Str(s) == [kind |-> "str", val |-> s]
NaN == [kind |-> "float", val |-> <<>>]
Num == [kind |-> "int", val |-> <<"4", "2">>]

\* \w of a Python 3 str pattern: letters, digits and the underscore.
WordChars ==
    {"G", "r", "e", "a", "t", "w", "o", "k", "f", "g", "b", "x", "0", "1", "_"}
\* \s, and what str.strip() strips.
Whitespace == {" ", "\n", "\t"}
\* The punctuation the first pattern keeps.
KeptPunct == {".", ",", "!", "?"}
\* The characters of the second pattern.
Bullets == {"bullet", "-", "*"}

isinstance_str(v) == v.kind = "str"

\* re.sub(r'[^\w\s.,!?]', ' ', text)
RemoveSpecial_NoBang(s) ==
    [i \in 1..Len(s) |->
        IF s[i] \in WordChars \cup Whitespace \cup (KeptPunct \ {"!"})
        THEN s[i] ELSE " "]

RemoveSpecial(s) ==
    [i \in 1..Len(s) |->
        IF s[i] \in WordChars \cup Whitespace \cup KeptPunct THEN s[i] ELSE " "]

\* re.sub(r'[•\-\*]', ' ', text)
RemoveBullets(s) ==
    [i \in 1..Len(s) |-> IF s[i] \in Bullets THEN " " ELSE s[i]]

RECURSIVE SkipWs(_)
SkipWs(s) ==
    IF s # <<>> /\ Head(s) \in Whitespace THEN SkipWs(Tail(s)) ELSE s

\* re.sub(r'\s+', ' ', text): every maximal run of whitespace becomes one space.
RECURSIVE CollapseWs(_)
CollapseWs(s) ==
    IF s = <<>> THEN <<>>
    ELSE IF Head(s) \in Whitespace THEN <<" ">> \o CollapseWs(SkipWs(s))
    ELSE <<Head(s)>> \o CollapseWs(Tail(s))

RECURSIVE RStrip(_)
RStrip(s) ==
    IF s # <<>> /\ s[Len(s)] \in Whitespace
    THEN RStrip(SubSeq(s, 1, Len(s) - 1)) ELSE s

Strip_Missing(s) == s

\* str.strip()
Strip(s) == RStrip(SkipWs(s))

sanitize_text_CollapseFirst(v) ==
    IF ~isinstance_str(v) THEN Str(<<>>)
    ELSE Str(RemoveBullets(RemoveSpecial(Strip(CollapseWs(v.val)))))

sanitize_text(v) ==
    IF ~isinstance_str(v) THEN Str(<<>>)
    ELSE Str(Strip(CollapseWs(RemoveBullets(RemoveSpecial(v.val)))))

---------------------------------------------------------------------------
(* SpecSanitize: sanitize_text applied once and twice to every value of a  *)
(* bounded input set.                                                      *)

\* One character of each class, and more than one where the classes differ inside.
Alphabet == {"a", "_", " ", "\n", "\t", ".", "!", "-", "bullet", "%"}

RECURSIVE TextsUpTo(_)
TextsUpTo(n) ==
    IF n = 0 THEN {<<>>}
    ELSE LET shorter == TextsUpTo(n - 1)
         IN shorter \cup {Append(s, c) : s \in {t \in shorter : Len(t) = n - 1},
                                         c \in Alphabet}

GreatWork ==
    <<"G", "r", "e", "a", "t", " ", "w", "o", "r", "k", "!", "!", " ",
      "1", "0", "0", "%", " ", "e", "f", "f", "o", "r", "t">>

SanitizeInputs ==
    {Str(s) : s \in TextsUpTo(MaxLen)} \cup {Str(GreatWork), NaN, Num}

NoFrame == [columns |-> {}, rows |-> <<>>]
NoErr == [kind |-> "none", at |-> "none"]

MainIdle ==
    /\ pc = "idle"
    /\ uploaded = NoFrame
    /\ df = NoFrame
    /\ colIdx = 0
    /\ sentiment_filter = {}
    /\ sort_by = "None"
    /\ filtered_df = NoFrame
    /\ aliased = FALSE
    /\ err = NoErr

InitSanitize ==
    /\ text \in SanitizeInputs
    /\ once = Str(<<>>)
    /\ twice = Str(<<>>)
    /\ spos = "input"
    /\ MainIdle

Sanitize ==
    /\ spos = "input"
    /\ once' = sanitize_text(text)
    /\ spos' = "once"
    /\ UNCHANGED <<text, twice, mainVars>>

SanitizeAgain ==
    /\ spos = "once"
    /\ twice' = sanitize_text(once)
    /\ spos' = "twice"
    /\ UNCHANGED <<text, once, mainVars>>

NextSanitize == Sanitize \/ SanitizeAgain

SpecSanitize == InitSanitize /\ [][NextSanitize]_vars


---------------------------------------------------------------------------
(* Tables.  A frame is [columns, rows]; a row is [idx, cells]: idx the row *)
(* label pandas keeps through filtering and sorting, cells a function from *)
(* the frame's column names to values.                                     *)

sentiment_columns ==
    <<"What Did Not Go Well?", "What Went Well?", "Reason for Churn",
      "Improvement opportunity", "Reason for reported success rate">>

ConfiguredColumns == {sentiment_columns[k] : k \in DOMAIN sentiment_columns}

ScoreCol(col) == col \o "_Sentiment_Score"
CategoryCol(col) == col \o "_Sentiment_Category"
ColorCol(col) == col \o "_Color"

Categories == {"very_negative", "negative", "neutral", "positive", "very_positive"}

\* Cells of the uploaded tables: raw texts that need every sanitizing step, a
\* missing cell, and a text the scoring primitive fails on.
tGood == Str(<<"g", "%">>)
tBad == Str(<<"-", "b", "\n">>)
tVeryGood == Str(<<"g", "\t", "g", "!">>)
tVeryBad == Str(<<"b", "bullet", "b">>)
tMalformed == Str(<<"x", "*">>)

\* The rows an uploaded table is made of, each over the five configured columns.
RowTemplates ==
    << <<NaN, NaN, NaN, NaN, NaN>>,
       <<tGood, tBad, NaN, tVeryGood, tMalformed>>,
       <<tBad, tGood, tMalformed, tVeryBad, tVeryGood>> >>

ColPos(col) == CHOOSE k \in DOMAIN sentiment_columns : sentiment_columns[k] = col

MakeTable(cols, t) ==
    [columns |-> cols \cup {"issue_key"},
     rows |-> [i \in 1..Len(t) |->
                 [idx |-> i - 1,
                  cells |-> [c \in cols \cup {"issue_key"} |->
                               IF c = "issue_key" THEN Num
                               ELSE RowTemplates[t[i]][ColPos(c)]]]]]

InputTables ==
    {MakeTable(cols, t) :
        cols \in SUBSET ConfiguredColumns,
        t \in UNION {[1..n -> DOMAIN RowTemplates] : n \in 0..MaxRows}}

---------------------------------------------------------------------------
(* SentimentAnalyzer (utils/sentiment_analyzer.py)                         *)

Count(s, ch) == Cardinality({i \in 1..Len(s) : s[i] = ch})

\* The lexicon primitive fails on malformed text.
PrimitiveFails(s) == \E i \in 1..Len(s) : s[i] = "x"

\* The lexicon primitive's compound score, in hundredths, within [-100, 100].
polarity_scores(s) ==
    LET sum == 40 * (Count(s, "g") - Count(s, "b"))
    IN IF sum > 100 THEN 100 ELSE IF sum < -100 THEN -100 ELSE sum

classify(compound) ==
    IF compound <= -60 THEN "very_negative"
    ELSE IF compound <= -20 THEN "negative"
    ELSE IF compound < 20 THEN "neutral"
    ELSE IF compound < 60 THEN "positive"
    ELSE "very_positive"

ColorOf(category) ==
    CASE category = "very_negative" -> "strong red"
      [] category = "negative" -> "light red"
      [] category = "neutral" -> "gray"
      [] category = "positive" -> "light green"
      [] OTHER -> "strong green"

Sentiment(compound, isRaised) ==
    [compound |-> compound, category |-> classify(compound),
     color |-> ColorOf(classify(compound)), raised |-> isRaised]

analyze_text_Propagates(s) ==
    IF PrimitiveFails(s) THEN Sentiment(0, TRUE)
    ELSE Sentiment(polarity_scores(s), FALSE)

\* A failure of the primitive is recovered per cell: the text counts as neutral.
analyze_text(s) ==
    IF PrimitiveFails(s) THEN Sentiment(0, FALSE)
    ELSE Sentiment(polarity_scores(s), FALSE)

---------------------------------------------------------------------------
(* analyze_retrodata                                                       *)

\* str(text)
py_str(v) == IF isinstance_str(v) THEN v.val ELSE <<"n", "a", "n">>

ColumnPresent_Always(frame, col) == TRUE

\* col in df.columns
ColumnPresent(frame, col) == col \in frame.columns

\* df[col] = df[col].apply(sanitize_text)
ApplySanitize(frame, col) ==
    [frame EXCEPT !.rows =
        [i \in 1..Len(frame.rows) |->
            [frame.rows[i] EXCEPT !.cells[col] = sanitize_text(@)]]]

Sentiments_Reversed(frame, col) ==
    [i \in 1..Len(frame.rows) |->
        analyze_text(py_str(frame.rows[Len(frame.rows) + 1 - i].cells[col]))]

\* sentiments: one analyze_text result per cell of the column, in row order
Sentiments(frame, col) ==
    [i \in 1..Len(frame.rows) |-> analyze_text(py_str(frame.rows[i].cells[col]))]

\* The three column assignments: list values are assigned by position.
AddSentimentColumns(frame, col, sentiments) ==
    LET added == {ScoreCol(col), CategoryCol(col), ColorCol(col)}
    IN [columns |-> frame.columns \cup added,
        rows |-> [i \in 1..Len(frame.rows) |->
                    [idx |-> frame.rows[i].idx,
                     cells |-> [c \in frame.columns \cup added |->
                                  IF c = ScoreCol(col) THEN sentiments[i].compound
                                  ELSE IF c = CategoryCol(col) THEN sentiments[i].category
                                  ELSE IF c = ColorCol(col) THEN sentiments[i].color
                                  ELSE frame.rows[i].cells[c]]]]]

Raise(kind, at) ==
    /\ pc' = "error"
    /\ err' = [kind |-> kind, at |-> at]

\* One iteration of the loop over sentiment_columns; after the last one
\* analyze_retrodata returns and main() goes on to the widgets.
AnalyzeColumn ==
    /\ pc = "analyze"
    /\ LET col == sentiment_columns[colIdx]
           advance == /\ pc' = IF colIdx = Len(sentiment_columns)
                               THEN "select" ELSE "analyze"
                      /\ colIdx' = IF colIdx = Len(sentiment_columns)
                                   THEN colIdx ELSE colIdx + 1
                      /\ err' = err
       IN IF ~ColumnPresent(df, col)
          THEN df' = df /\ advance
          ELSE IF col \notin df.columns
          THEN df' = df /\ colIdx' = colIdx /\ Raise("KeyError", "analyze")
          ELSE LET clean == ApplySanitize(df, col)
                   sentiments == Sentiments(clean, col)
               IN IF \E i \in 1..Len(sentiments) : sentiments[i].raised
                  THEN df' = clean /\ colIdx' = colIdx
                       /\ Raise("ScoringError", "analyze")
                  ELSE df' = AddSentimentColumns(clean, col, sentiments) /\ advance
    /\ UNCHANGED <<uploaded, sentiment_filter, sort_by, filtered_df, aliased,
                   sanitizeVars>>

---------------------------------------------------------------------------
(* main(): the widgets, the filter, the sort and the display               *)

KnownColumns == ConfiguredColumns \cup {"issue_key"}

\* col.endswith('_Sentiment_Score')
EndsWithScore(c) == \E b \in KnownColumns : c = ScoreCol(b)

\* The selectbox's options.
ScoreOptions(frame) == {c \in frame.columns : EndsWithScore(c)}

\* st.selectbox: one of the options, or None when there is none.
SelectboxValues(options) == IF options = {} THEN {"None"} ELSE options

\* The filter expression reads all five category columns by name.
FilterRaises(frame) ==
    \E k \in DOMAIN sentiment_columns :
        CategoryCol(sentiment_columns[k]) \notin frame.columns

\* The mask: isin(sentiment_filter) of the five category columns, or-ed.
FilterMask(frame, selected, r) ==
    \E k \in DOMAIN sentiment_columns :
        r.cells[CategoryCol(sentiment_columns[k])] \in selected

\* df[mask]: a new frame of the rows the mask keeps, in order.
BooleanIndex(frame, selected) ==
    [frame EXCEPT !.rows = SelectSeq(@, LAMBDA r : FilterMask(frame, selected, r))]

ApplyFilters ==
    /\ pc = "select"
    /\ \E selected \in SUBSET Categories, by \in SelectboxValues(ScoreOptions(df)) :
          /\ sentiment_filter' = selected
          /\ sort_by' = by
          /\ IF selected # {}
             THEN IF FilterRaises(df)
                  THEN /\ Raise("KeyError", "filter")
                       /\ UNCHANGED <<filtered_df, aliased>>
                  ELSE /\ filtered_df' = BooleanIndex(df, selected)
                       /\ aliased' = FALSE
                       /\ pc' = "sort"
                       /\ err' = err
             ELSE /\ filtered_df' = df
                  /\ aliased' = TRUE
                  /\ pc' = "sort"
                  /\ err' = err
    /\ UNCHANGED <<uploaded, df, colIdx, sanitizeVars>>

sort_values_raises_Never(frame, by) == FALSE

\* sort_values(by=...) raises KeyError for a label that is no column.
sort_values_raises(frame, by) == by \notin frame.columns

SortKey(r, by) == IF by \in DOMAIN r.cells THEN r.cells[by] ELSE 0

Orderings(n) == {p \in [1..n -> 1..n] : \A i, j \in 1..n : i # j => p[i] # p[j]}

\* sort_values(by=sort_by, ascending=False) with the default kind='quicksort',
\* which is not a stable sort: the result is in descending order of the
\* column, and rows with equal values come in an order the sort does not fix.
SortOutcomes(frame, by) ==
    LET n == Len(frame.rows)
    IN {[frame EXCEPT !.rows = [i \in 1..n |-> frame.rows[p[i]]]] :
          p \in {q \in Orderings(n) :
                   \A i, j \in 1..n :
                      i < j => SortKey(frame.rows[q[i]], by)
                                  >= SortKey(frame.rows[q[j]], by)}}

DfAfterSort_InPlace(frame, sorted, isAlias) == IF isAlias THEN sorted ELSE frame

\* sort_values returns a new frame (inplace=False): df keeps its rows.
DfAfterSort(frame, sorted, isAlias) == frame

SortValues ==
    /\ pc = "sort"
    /\ IF sort_values_raises(filtered_df, sort_by)
       THEN /\ Raise("KeyError", "sort")
            /\ UNCHANGED <<df, filtered_df, aliased>>
       ELSE \E sorted \in SortOutcomes(filtered_df, sort_by) :
               /\ filtered_df' = sorted
               /\ aliased' = FALSE
               /\ df' = DfAfterSort(df, sorted, aliased)
               /\ pc' = "display"
               /\ err' = err
    /\ UNCHANGED <<uploaded, colIdx, sentiment_filter, sort_by, sanitizeVars>>

\* The table is written, then the statistics: mode()[0] of the category
\* column raises when no row is left.
Display ==
    /\ pc = "display"
    /\ IF Len(filtered_df.rows) = 0
       THEN Raise("KeyError", "stats")
       ELSE pc' = "done" /\ err' = err
    /\ UNCHANGED <<uploaded, df, colIdx, sentiment_filter, sort_by, filtered_df,
                   aliased, sanitizeVars>>

SanitizeIdle ==
    /\ text = NaN
    /\ once = Str(<<>>)
    /\ twice = Str(<<>>)
    /\ spos = "idle"

\* A file was uploaded and read_excel returned its table.
Init ==
    /\ SanitizeIdle
    /\ uploaded \in InputTables
    /\ df = uploaded
    /\ pc = "analyze"
    /\ colIdx = 1
    /\ sentiment_filter = {}
    /\ sort_by = "None"
    /\ filtered_df = NoFrame
    /\ aliased = FALSE
    /\ err = NoErr

Next == AnalyzeColumn \/ ApplyFilters \/ SortValues \/ Display

Spec == Init /\ [][Next]_vars

---------------------------------------------------------------------------
(* Properties                                                              *)

\* The configured text columns the uploaded table held: the analyzed columns.
AnalyzedColumns == ConfiguredColumns \cap uploaded.columns

\* The sanitized text of row i's cell of column c of the uploaded table.
CleanText(i, c) == sanitize_text(uploaded.rows[i].cells[c]).val

\* The rows of df the claimed filter keeps: all of them for an empty selection,
\* else those with a selected category in a category column of an analyzed column.
ClaimedFilterRows ==
    SelectSeq(df.rows,
              LAMBDA r : \/ sentiment_filter = {}
                         \/ \E c \in AnalyzedColumns :
                               r.cells[CategoryCol(c)] \in sentiment_filter)

\* C1: whichever configured columns the table held and whichever categories
\* are selected, the filter step completes and keeps exactly the rows that
\* match: all rows for an empty selection, else the rows with a selected
\* category in some analyzed column's category column.
C1_FilterKeepsMatchingRows ==
    (pc = "sort" \/ (pc = "error" /\ err.at = "filter"))
        => (pc = "sort" /\ filtered_df.rows = ClaimedFilterRows)

\* C1 (case reached): a non-empty selection that keeps some rows and drops others.
C1_FilterSplitsTable ==
    /\ pc = "sort"
    /\ sentiment_filter # {}
    /\ Len(filtered_df.rows) > 0
    /\ Len(filtered_df.rows) < Len(df.rows)

\* C2: a failure of the scoring primitive on a cell never aborts the analysis;
\* when analyze returns, the table has all its rows, every cell the primitive
\* failed on has compound 0 and category neutral, and every other cell of every
\* analyzed column has the primitive's score and that score's category.
C2_ScoringFailureIsNeutral ==
    /\ err.at # "analyze"
    /\ pc = "select" =>
          /\ Len(df.rows) = Len(uploaded.rows)
          /\ \A i \in 1..Len(df.rows) : \A c \in AnalyzedColumns :
                LET cells == df.rows[i].cells
                IN IF PrimitiveFails(CleanText(i, c))
                   THEN /\ cells[ScoreCol(c)] = 0
                        /\ cells[CategoryCol(c)] = "neutral"
                   ELSE /\ cells[ScoreCol(c)] = polarity_scores(CleanText(i, c))
                        /\ cells[CategoryCol(c)] = classify(cells[ScoreCol(c)])

\* C2 (case reached): analyze returned a table in which the primitive failed on
\* one cell of a row and scored another cell of the same table as not neutral.
C2_FailedCellBesideScoredCell ==
    /\ pc = "select"
    /\ \E i, j \in 1..Len(df.rows) : \E c, d \in AnalyzedColumns :
          /\ PrimitiveFails(CleanText(i, c))
          /\ ~PrimitiveFails(CleanText(j, d))
          /\ df.rows[j].cells[CategoryCol(d)] # "neutral"

\* C3: after the sort step the rows are in descending order of the chosen
\* score column, and rows with equal scores keep their original relative order.
C3_SortDescendingAndStable ==
    pc = "display" =>
        \A i, j \in 1..Len(filtered_df.rows) :
            i < j =>
                LET a == filtered_df.rows[i]
                    b == filtered_df.rows[j]
                IN \/ a.cells[sort_by] > b.cells[sort_by]
                   \/ a.cells[sort_by] = b.cells[sort_by] /\ a.idx < b.idx

\* C3 (case reached): a sorted result that holds two rows with equal scores.
C3_SortedWithTie ==
    /\ pc = "display"
    /\ \E i, j \in 1..Len(filtered_df.rows) :
          i # j /\ filtered_df.rows[i].cells[sort_by] = filtered_df.rows[j].cells[sort_by]

\* C4: analyze returns as many rows as the uploaded table has, in the same
\* order, and row i's three derived cells of each analyzed column are the
\* components of the sentiment of row i's own cell of that column.
C4_AnalyzeKeepsRows ==
    pc = "select" =>
        /\ Len(df.rows) = Len(uploaded.rows)
        /\ \A i \in 1..Len(df.rows) :
              /\ df.rows[i].idx = uploaded.rows[i].idx
              /\ df.rows[i].cells["issue_key"] = uploaded.rows[i].cells["issue_key"]
              /\ \A c \in AnalyzedColumns :
                    LET cells == df.rows[i].cells
                        compound == IF PrimitiveFails(CleanText(i, c))
                                    THEN 0 ELSE polarity_scores(CleanText(i, c))
                    IN /\ cells[c] = Str(CleanText(i, c))
                       /\ cells[ScoreCol(c)] = compound
                       /\ cells[CategoryCol(c)] = classify(compound)
                       /\ cells[ColorCol(c)] = ColorOf(classify(compound))

\* C4 (case reached): analyze returned a table of two rows that differ in the
\* score of an analyzed column.
C4_RowsWithDifferentScores ==
    /\ pc = "select"
    /\ Len(df.rows) >= 2
    /\ \E c \in AnalyzedColumns :
          df.rows[1].cells[ScoreCol(c)] # df.rows[2].cells[ScoreCol(c)]

\* C5: after analyze, each configured column's three derived columns are in the
\* table exactly when the column was in the uploaded table; a configured column
\* that is absent raises nothing and adds no column.
C5_DerivedColumnsIffPresent ==
    /\ err.at # "analyze"
    /\ pc = "select" =>
          /\ \A c \in ConfiguredColumns :
                /\ ScoreCol(c) \in df.columns <=> c \in uploaded.columns
                /\ CategoryCol(c) \in df.columns <=> c \in uploaded.columns
                /\ ColorCol(c) \in df.columns <=> c \in uploaded.columns
          /\ df.columns =
                uploaded.columns
                    \cup UNION {{ScoreCol(c), CategoryCol(c), ColorCol(c)} :
                                   c \in AnalyzedColumns}
          /\ \A i \in 1..Len(df.rows) : DOMAIN df.rows[i].cells = df.columns

\* C5 (case reached): analyze returned for a table that held some configured
\* columns and lacked others.
C5_SomePresentSomeAbsent ==
    /\ pc = "select"
    /\ AnalyzedColumns # {}
    /\ AnalyzedColumns # ConfiguredColumns
    /\ Len(df.rows) > 0

\* C6: once the widgets are read, a sort column that is no column of the table
\* ends the request in the error main() reports (the KeyError of the filter or
\* of the sort); no other column is sorted by and no result table is shown.
C6_InvalidSortColumnRejected ==
    (pc \in {"sort", "display", "done", "error"} /\ sort_by \notin df.columns) =>
        \/ /\ pc = "error"
           /\ err.kind = "KeyError"
           /\ err.at \in {"filter", "sort"}
           /\ filtered_df.rows = IF err.at = "sort" THEN df.rows ELSE <<>>
        \/ /\ pc = "sort"
           /\ filtered_df = df
           /\ ENABLED SortValues

\* C6 (case reached): the sort raised for a table without any score column.
C6_SortRaisedWithoutScoreColumn ==
    /\ pc = "error"
    /\ err = [kind |-> "KeyError", at |-> "sort"]
    /\ ScoreOptions(df) = {}
    /\ sort_by = "None"
    /\ Len(df.rows) > 0

\* C7: sanitize_text applied to its own result returns that result.
C7_SanitizeIdempotent ==
    spos = "twice" => twice = once

\* C7 (case reached): a text that sanitizing changed, sanitized twice.
C7_ChangedTextSanitizedTwice ==
    /\ spos = "twice"
    /\ isinstance_str(text)
    /\ once # text
    /\ Len(once.val) >= 2

\* C8: sanitize_text returns a string for every value: the empty string for a
\* non-string, and for a string a text whose only whitespace is single spaces
\* between other characters.
C8_SanitizeNormalizesSpace ==
    spos \in {"once", "twice"} =>
        /\ isinstance_str(once)
        /\ ~isinstance_str(text) => once.val = <<>>
        /\ \A i \in 1..Len(once.val) :
              /\ once.val[i] \in Whitespace => once.val[i] = " "
              /\ once.val[i] \in Whitespace =>
                    /\ i > 1 /\ i < Len(once.val)
                    /\ once.val[i + 1] \notin Whitespace

\* C8 (case reached): a text with a newline or a tab between two other
\* characters, sanitized to a text that holds a space in its place.
C8_WhitespaceTextSanitized ==
    /\ spos = "once"
    /\ isinstance_str(text)
    /\ \E i \in 1..Len(text.val) : text.val[i] \in {"\n", "\t"}
    /\ \E i \in 1..Len(once.val) : once.val[i] = " "

GreatWorkWithBangs ==
    <<"G", "r", "e", "a", "t", " ", "w", "o", "r", "k", "!", "!", " ",
      "1", "0", "0", " ", "e", "f", "f", "o", "r", "t">>

GreatWorkWithoutBangs ==
    <<"G", "r", "e", "a", "t", " ", "w", "o", "r", "k", " ",
      "1", "0", "0", " ", "e", "f", "f", "o", "r", "t">>

\* C9 (as amended): sanitize_text of "Great work!! 100% effort" is
\* "Great work!! 100 effort": the percent sign goes, the "!!" stays.
C9_GreatWorkKeepsBangs ==
    (spos # "input" /\ text = Str(GreatWork)) => once = Str(GreatWorkWithBangs)

\* C9 (as claimed): sanitize_text of "Great work!! 100% effort" is
\* "Great work 100 effort".
C9_GreatWorkLosesBangs ==
    (spos # "input" /\ text = Str(GreatWork)) => once = Str(GreatWorkWithoutBangs)

\* C9 (case reached): the scenario's text was sanitized.
C9_GreatWorkSanitized ==
    /\ spos = "once"
    /\ text = Str(GreatWork)
    /\ Len(once.val) < Len(text.val)

\* C10: the filter and the sort steps leave the augmented table as analyze
\* returned it: the same rows, in the same order, with the same cells.
C10_FilterSortKeepAugmentedTable ==
    [][(pc \in {"select", "sort"}) => (df' = df)]_vars

\* C10 (case reached): a sort that reordered the rows, after an empty selection
\* made filtered_df the table itself.
C10_SortReorderedRows ==
    /\ pc = "display"
    /\ sentiment_filter = {}
    /\ filtered_df.columns = df.columns
    /\ filtered_df.rows # df.rows

=============================================================================
